---- MODULE Spec2Model ----
(***************************************************************************)
(* A model of charmcraft/main.py: the Dispatcher (global option pre-parser, *)
(* help resolver, command loader, run) and the top-level driver main().     *)
(*                                                                          *)
(* A token of the argument vector is a sequence of chunks, so that the      *)
(* string operations of the pre-parser (exact lookup, startswith, split on  *)
(* the first "=") are computed and not assumed: "--project-dir=d" is        *)
(* <<"--project-dir", "=", "d">>.  A Python value that may be None is a     *)
(* sequence of length 0 (None) or 1 (the value).                            *)
(***************************************************************************)
EXTENDS Integers, Sequences, FiniteSets, TLC

\* Longest argument vector (without the program name) that is explored.
MaxLen == 3

None == <<>>
Some(x) == <<x>>

\* The tokens the argument vectors are drawn from: each kind of global token
\* (a flag in its short and in its long spelling, the option, the option with
\* "=" and an empty value, a value, a value that holds "="), the "help"
\* command, "--all", two registered commands and an unknown one.
Tokens ==
    { <<"-h">>, <<"-v">>, <<"--quiet">>, <<"--project-dir">>,
      <<"--project-dir", "=">>, <<"--project-dir", "=", "d">>,
      <<"--project-dir", "=", "a", "=", "b">>,
      <<"help">>, <<"--all">>, <<"version">>, <<"pack">>, <<"nope">> }

ArgVectors == UNION { [1..n -> Tokens] : n \in 0..MaxLen }

(***************************************************************************)
(* Collaborators, at their interface.                                      *)
(***************************************************************************)

\* help_builder.get_usage_message(error_message, command=""): the usage
\* framing around an error text.
get_usage_message(msg, command) ==
    <<"Usage: ", "charmcraft">> \o command \o <<"Error: ">> \o msg

\* help_builder.get_full_help / get_detailed_help / get_command_help.
get_full_help == <<"full_help">>
get_detailed_help == <<"detailed_help">>
builder_command_help(name) == <<"command_help">> \o name

\* What a command's run() may do: return a code (or None), or raise.
RunOutcomes ==
    { [how |-> "return", value |-> None],
      [how |-> "return", value |-> Some(0)],
      [how |-> "return", value |-> Some(2)],
      [how |-> "CommandError", value |-> Some(3)],
      [how |-> "KeyboardInterrupt", value |-> None],
      [how |-> "Exception", value |-> None] }

\* What env.ensure_charmcraft_environment_is_supported() may do.
EnvOutcomes ==
    { [how |-> "return", value |-> None],
      [how |-> "CommandError", value |-> Some(1)] }

(***************************************************************************)
(* Module-level data of main.py.                                           *)
(***************************************************************************)

\* The command classes: name and needs_config.
VersionCommand == [name |-> <<"version">>, needs_config |-> FALSE]
PackCommand == [name |-> <<"pack">>, needs_config |-> TRUE]
LoginCommand == [name |-> <<"login">>, needs_config |-> FALSE]

COMMAND_GROUPS ==
    << <<"basic", "Basic", <<PackCommand, VersionCommand>> >>,
       <<"store", "Charmhub", <<LoginCommand>> >> >>

GLOBAL_ARGS ==
    << [name |-> "help", type |-> "flag",
        short_option |-> <<"-h">>, long_option |-> <<"--help">>],
       [name |-> "verbose", type |-> "flag",
        short_option |-> <<"-v">>, long_option |-> <<"--verbose">>],
       [name |-> "quiet", type |-> "flag",
        short_option |-> <<"-q">>, long_option |-> <<"--quiet">>],
       [name |-> "project_dir", type |-> "option",
        short_option |-> <<"-p">>, long_option |-> <<"--project-dir">>] >>

\* Exceptions: the class, the message (or help text) and, for CommandError,
\* the retcode.
NoExc == [kind |-> "none", text |-> <<>>, retcode |-> 0]
ArgumentParsingError(text) ==
    [kind |-> "ArgumentParsingError", text |-> text, retcode |-> 0]
ProvideHelpException(text) ==
    [kind |-> "ProvideHelpException", text |-> text, retcode |-> 0]
CommandError(code) == [kind |-> "CommandError", text |-> <<>>, retcode |-> code]
OtherException(kind) == [kind |-> kind, text |-> <<>>, retcode |-> 0]

\* The messages of the raise sites.
ProjectDirMsg == <<"The 'project-dir' option expects one argument.">>
MutexMsg == <<"The 'verbose' and 'quiet' options are mutually exclusive.">>
TooManyMsg ==
    <<"Too many parameters when requesting help; pass a command, '--all', or leave it empty">>
NeedsConfigMsg ==
    <<"The specified command needs a valid 'charmcraft.yaml' configuration file (in the current directory or where specified with --project-dir option); see the reference: https://discourse.charmhub.io/t/charmcraft-configuration/4138">>
repr(token) == <<"'">> \o token \o <<"'">>
NotFoundHelpMsg(param) ==
    <<"command ">> \o repr(param) \o <<" not found to provide help for">>
NoSuchCommandMsg(cmd) == <<"no such command ">> \o repr(cmd)
UnrecognizedMsg == <<"unrecognized arguments">>

(***************************************************************************)
(* Dispatcher: the pure parts.                                             *)
(***************************************************************************)

RECURSIVE ClassesOf(_)
ClassesOf(groups) ==
    IF groups = <<>> THEN <<>> ELSE Head(groups)[3] \o ClassesOf(Tail(groups))

\* Dispatcher._get_commands_info: name -> class, RuntimeError on a repeated name.
get_commands_info(commands_groups) ==
    LET cs == ClassesOf(commands_groups)
        names == { cs[k].name : k \in DOMAIN cs }
    IN  [ error |-> \E a, b \in DOMAIN cs : a < b /\ cs[a].name = cs[b].name,
          commands |-> [ n \in names |-> cs[CHOOSE k \in DOMAIN cs : cs[k].name = n] ] ]

\* _pre_parse_args, the set-up loop over GLOBAL_ARGS.
arg_per_option ==
    LET spellings == { GLOBAL_ARGS[k].short_option : k \in DOMAIN GLOBAL_ARGS }
                     \cup { GLOBAL_ARGS[k].long_option : k \in DOMAIN GLOBAL_ARGS }
    IN  [ s \in spellings |->
            GLOBAL_ARGS[CHOOSE k \in DOMAIN GLOBAL_ARGS :
                            /\ s \in {GLOBAL_ARGS[k].short_option, GLOBAL_ARGS[k].long_option}
                            /\ \A j \in DOMAIN GLOBAL_ARGS :
                                 s \in {GLOBAL_ARGS[j].short_option, GLOBAL_ARGS[j].long_option}
                                    => j <= k] ]

options_with_equal ==
    { GLOBAL_ARGS[k].long_option \o <<"=">> :
        k \in { j \in DOMAIN GLOBAL_ARGS : GLOBAL_ARGS[j].type = "option" } }

default_global_args ==
    [ n \in { GLOBAL_ARGS[k].name : k \in DOMAIN GLOBAL_ARGS } |->
        IF (CHOOSE a \in { GLOBAL_ARGS[k] : k \in DOMAIN GLOBAL_ARGS } : a.name = n).type = "flag"
        THEN Some(FALSE) ELSE None ]

\* startswith written as an equality test.
startswith_exact(s, prefixes) == s \in prefixes

\* str.startswith(tuple of prefixes)
startswith(s, prefixes) ==
    \E p \in prefixes : Len(s) >= Len(p) /\ SubSeq(s, 1, Len(p)) = p

\* str.split(sep, 1) of a string that holds sep: the parts around the first sep.
split1(s, sep) ==
    LET at == CHOOSE k \in DOMAIN s : s[k] = sep /\ \A j \in 1..(k - 1) : s[j] # sep
    IN  << SubSeq(s, 1, at - 1), SubSeq(s, at + 1, Len(s)) >>

\* scan_step without the test of an empty value after "=".
scan_step_empty_value(ga, fs, args, k) ==
    LET sysarg == args[k] IN
    IF sysarg \in DOMAIN arg_per_option THEN
        LET arg == arg_per_option[sysarg] IN
        IF arg.type = "flag" THEN
            [global_args |-> [ga EXCEPT ![arg.name] = Some(TRUE)],
             filtered_sysargs |-> fs, next |-> k + 1, raised |-> FALSE]
        ELSE IF k + 1 > Len(args) THEN
            [global_args |-> ga, filtered_sysargs |-> fs, next |-> k + 1, raised |-> TRUE]
        ELSE
            [global_args |-> [ga EXCEPT ![arg.name] = Some(args[k + 1])],
             filtered_sysargs |-> fs, next |-> k + 2, raised |-> FALSE]
    ELSE IF startswith(sysarg, options_with_equal) THEN
        [global_args |->
            [ga EXCEPT ![arg_per_option[split1(sysarg, "=")[1]].name] =
                            Some(split1(sysarg, "=")[2])],
         filtered_sysargs |-> fs, next |-> k + 1, raised |-> FALSE]
    ELSE
        [global_args |-> ga, filtered_sysargs |-> Append(fs, sysarg),
         next |-> k + 1, raised |-> FALSE]

\* One iteration of the scan loop of _pre_parse_args, at token k of sysargs:
\* the global_args and filtered_sysargs after it, the next position of the
\* iterator, and whether it raised.
scan_step(ga, fs, args, k) ==
    LET sysarg == args[k] IN
    IF sysarg \in DOMAIN arg_per_option THEN
        LET arg == arg_per_option[sysarg] IN
        IF arg.type = "flag" THEN
            [global_args |-> [ga EXCEPT ![arg.name] = Some(TRUE)],
             filtered_sysargs |-> fs, next |-> k + 1, raised |-> FALSE]
        ELSE IF k + 1 > Len(args) THEN
            [global_args |-> ga, filtered_sysargs |-> fs, next |-> k + 1, raised |-> TRUE]
        ELSE
            [global_args |-> [ga EXCEPT ![arg.name] = Some(args[k + 1])],
             filtered_sysargs |-> fs, next |-> k + 2, raised |-> FALSE]
    ELSE IF startswith(sysarg, options_with_equal) THEN
        LET option == split1(sysarg, "=")[1]
            value == split1(sysarg, "=")[2]
        IN  IF value = <<>> THEN
                [global_args |-> ga, filtered_sysargs |-> fs, next |-> k + 1, raised |-> TRUE]
            ELSE
                [global_args |-> [ga EXCEPT ![arg_per_option[option].name] = Some(value)],
                 filtered_sysargs |-> fs, next |-> k + 1, raised |-> FALSE]
    ELSE
        [global_args |-> ga, filtered_sysargs |-> Append(fs, sysarg),
         next |-> k + 1, raised |-> FALSE]

\* The truth value of a flag of global_args.
flag(ga, name) == ga[name] = Some(TRUE)

\* verbosity without the mutual exclusion test: quiet wins.
verbosity_quiet_wins(ga) ==
    IF ga["quiet"] = Some(TRUE) THEN [raised |-> FALSE, set_mode |-> Some("QUIET")]
    ELSE IF ga["verbose"] = Some(TRUE) THEN [raised |-> FALSE, set_mode |-> Some("VERBOSE")]
    ELSE [raised |-> FALSE, set_mode |-> None]

\* verbosity with the verbose flag setting no mode.
verbosity_verbose_ignored(ga) ==
    IF ga["quiet"] = Some(TRUE) /\ ga["verbose"] = Some(TRUE)
    THEN [raised |-> TRUE, set_mode |-> None]
    ELSE IF ga["quiet"] = Some(TRUE) THEN [raised |-> FALSE, set_mode |-> Some("QUIET")]
    ELSE [raised |-> FALSE, set_mode |-> None]

\* _pre_parse_args, "control and use quiet/verbose options": whether it raises,
\* and the mode given to message_handler.set_mode (None: no call).
verbosity(ga) ==
    IF flag(ga, "quiet") /\ flag(ga, "verbose") THEN [raised |-> TRUE, set_mode |-> None]
    ELSE IF flag(ga, "quiet") THEN [raised |-> FALSE, set_mode |-> Some("QUIET")]
    ELSE IF flag(ga, "verbose") THEN [raised |-> FALSE, set_mode |-> Some("VERBOSE")]
    ELSE [raised |-> FALSE, set_mode |-> None]

\* get_general_help(detailed)
get_general_help(detailed) ==
    IF detailed THEN get_detailed_help ELSE get_full_help

\* _get_requested_help with "--all" looked at before the number of parameters.
get_requested_help_all_first(cmds, parameters) ==
    IF Len(parameters) = 0 THEN
        [exc |-> ProvideHelpException(get_general_help(FALSE)), instantiated |-> <<>>]
    ELSE IF parameters[1] = <<"--all">> THEN
        [exc |-> ProvideHelpException(get_general_help(TRUE)), instantiated |-> <<>>]
    ELSE IF Len(parameters) > 1 THEN
        [exc |-> ArgumentParsingError(get_usage_message(TooManyMsg, <<>>)),
         instantiated |-> <<>>]
    ELSE IF parameters[1] \notin DOMAIN cmds THEN
        [exc |-> ArgumentParsingError(
                    get_usage_message(NotFoundHelpMsg(parameters[1]), <<>>)),
         instantiated |-> <<>>]
    ELSE
        [exc |-> ProvideHelpException(builder_command_help(cmds[parameters[1]].name)),
         instantiated |-> << [name |-> cmds[parameters[1]].name, config |-> None] >>]

\* Dispatcher._get_requested_help: the exception it ends in (the caller raises
\* ProvideHelpException with a returned text) and the configuration objects
\* given to the command classes it instantiated.
get_requested_help(cmds, parameters) ==
    IF Len(parameters) = 0 THEN
        [exc |-> ProvideHelpException(get_general_help(FALSE)), instantiated |-> <<>>]
    ELSE IF Len(parameters) > 1 THEN
        [exc |-> ArgumentParsingError(get_usage_message(TooManyMsg, <<>>)),
         instantiated |-> <<>>]
    ELSE LET param == parameters[1] IN
        IF param = <<"--all">> THEN
            [exc |-> ProvideHelpException(get_general_help(TRUE)), instantiated |-> <<>>]
        ELSE IF param \notin DOMAIN cmds THEN
            [exc |-> ArgumentParsingError(get_usage_message(NotFoundHelpMsg(param), <<>>)),
             instantiated |-> <<>>]
        ELSE
            [exc |-> ProvideHelpException(builder_command_help(cmds[param].name)),
             instantiated |-> << [name |-> cmds[param].name, config |-> None] >>]

\* _pre_parse_args after the help option: "help" as a command, an unknown
\* command, no command; otherwise the command and its arguments.
resolve_command(cmds, fs) ==
    IF fs # <<>> THEN
        IF Head(fs) = <<"help">> THEN
            LET h == get_requested_help(cmds, Tail(fs))
            IN  [exc |-> h.exc, instantiated |-> h.instantiated,
                 help |-> TRUE, checked |-> FALSE]
        ELSE IF Head(fs) \notin DOMAIN cmds THEN
            [exc |-> ArgumentParsingError(get_usage_message(NoSuchCommandMsg(Head(fs)), <<>>)),
             instantiated |-> <<>>, help |-> FALSE, checked |-> TRUE]
        ELSE
            [exc |-> NoExc, instantiated |-> <<>>, help |-> FALSE, checked |-> TRUE]
    ELSE
        [exc |-> ArgumentParsingError(get_general_help(FALSE)),
         instantiated |-> <<>>, help |-> FALSE, checked |-> FALSE]

\* The precondition with the "not" forgotten.
needs_config_missing_inverted(cmd) ==
    cmd.needs_config /\ cmd.config[1].project.config_provided

\* Dispatcher.run, the configuration precondition.
needs_config_missing(cmd) ==
    cmd.needs_config /\ ~ cmd.config[1].project.config_provided

(***************************************************************************)
(* main(): the except clauses, in the order they are written.              *)
(***************************************************************************)

ExceptClauses ==
    <<"ArgumentParsingError", "ProvideHelpException", "CommandError",
      "KeyboardInterrupt", "Exception">>

\* isinstance(exception of class kind, cls)
isinstance(kind, cls) ==
    \/ kind = cls
    \/ cls = "Exception" /\ kind \in
          {"ArgumentParsingError", "ProvideHelpException", "CommandError", "RuntimeError"}

\* The clauses with "except Exception" tried first.
except_clause_generic_first(e) ==
    IF isinstance(e.kind, "Exception") THEN "Exception" ELSE e.kind

\* The clause that catches the exception: the first that matches.
except_clause(e) ==
    ExceptClauses[CHOOSE k \in DOMAIN ExceptClauses :
                     /\ isinstance(e.kind, ExceptClauses[k])
                     /\ \A j \in 1..(k - 1) : ~ isinstance(e.kind, ExceptClauses[j])]

\* The message_handler hook a clause calls, with its argument.
clause_hook(clause, e) ==
    CASE clause = "ArgumentParsingError" -> [hook |-> "ended_ok", err |-> None]
      [] clause = "ProvideHelpException" -> [hook |-> "ended_ok", err |-> None]
      [] clause = "CommandError" -> [hook |-> "ended_cmderror", err |-> Some(e)]
      [] clause = "KeyboardInterrupt" -> [hook |-> "ended_interrupt", err |-> None]
      [] clause = "Exception" -> [hook |-> "ended_crash", err |-> Some(e)]

\* The retcodes with the CommandError clause returning 1.
clause_retcode_fixed(clause, e) ==
    IF clause = "ProvideHelpException" THEN 0 ELSE 1

\* The retcode a clause sets.
clause_retcode(clause, e) ==
    CASE clause = "ArgumentParsingError" -> 1
      [] clause = "ProvideHelpException" -> 0
      [] clause = "CommandError" -> e.retcode
      [] clause = "KeyboardInterrupt" -> 1
      [] clause = "Exception" -> 1

\* The else clause: the retcode of a run that raised nothing.
else_retcode(rc) == IF rc = None THEN Some(0) ELSE rc

(***************************************************************************)
(* The state of one run of main(argv).                                     *)
(***************************************************************************)

VARIABLES
    sysargs,            \* the argument vector given to the Dispatcher (argv[1:])
    pc,                 \* the statement main() is at
    i,                  \* the position of the iterator over sysargs
    commands,           \* Dispatcher.commands
    global_args,        \* _pre_parse_args: global_args
    filtered_sysargs,   \* _pre_parse_args: filtered_sysargs
    command,            \* the command name _pre_parse_args returns (None before)
    cmd_args,           \* the command arguments _pre_parse_args returns
    charmcraft_config,  \* the configuration config.load returned (None before)
    self_command,       \* Dispatcher.command (None before)
    parsed_args,        \* Dispatcher.parsed_args (None before)
    exc,                \* the exception raised in the try block
    retcode,            \* main(): retcode (None until assigned)
    mode,               \* the mode of message_handler
    events,             \* the calls made, in order
    load_calls,         \* the arguments of the calls of config.load
    instances,          \* the command objects created, with the config given
    run_calls,          \* the arguments of the calls of command.run
    run_outcome,        \* what command.run did (None before)
    hooks               \* the termination hooks of message_handler called

vars == << sysargs, pc, i, commands, global_args, filtered_sysargs, command, cmd_args,
           charmcraft_config, self_command, parsed_args, exc, retcode, mode, events,
           load_calls, instances, run_calls, run_outcome, hooks >>

dispatcher_vars == << commands, global_args, filtered_sysargs, command, cmd_args,
                      charmcraft_config, self_command, parsed_args, i >>
log_vars == << load_calls, instances, run_calls, run_outcome, hooks >>

Init ==
    /\ sysargs = <<>>
    /\ pc = "main"
    /\ i = 0
    /\ commands = <<>>
    /\ global_args = <<>>
    /\ filtered_sysargs = <<>>
    /\ command = None
    /\ cmd_args = <<>>
    /\ charmcraft_config = None
    /\ self_command = None
    /\ parsed_args = None
    /\ exc = NoExc
    /\ retcode = None
    /\ mode = "unset"
    /\ events = <<>>
    /\ load_calls = <<>>
    /\ instances = <<>>
    /\ run_calls = <<>>
    /\ run_outcome = None
    /\ hooks = <<>>

\* raise e, inside the try block of main()
Raise(e) == exc' = e /\ pc' = "except"

\* main(): help_builder.init, message_handler.init(NORMAL).
MainInit ==
    /\ pc = "main"
    /\ mode' = "NORMAL"
    /\ events' = Append(events, "message_handler.init")
    /\ pc' = "ensure_env"
    /\ UNCHANGED << sysargs, dispatcher_vars, exc, retcode, log_vars >>

\* env.ensure_charmcraft_environment_is_supported()
EnsureEnv ==
    /\ pc = "ensure_env"
    /\ \E o \in EnvOutcomes :
          IF o.how = "return"
          THEN pc' = "setup_parts" /\ exc' = exc
          ELSE Raise(CommandError(o.value[1]))
    /\ events' = Append(events, "env.ensure")
    /\ UNCHANGED << sysargs, dispatcher_vars, retcode, mode, log_vars >>

\* setup_parts()
SetupParts ==
    /\ pc = "setup_parts"
    /\ events' = Append(events, "setup_parts")
    /\ pc' = "Dispatcher"
    /\ UNCHANGED << sysargs, dispatcher_vars, exc, retcode, mode, log_vars >>

\* main() constructs the Dispatcher on argv[1:], any argument vector:
\* _get_commands_info, then _pre_parse_args up to the scan.
DispatcherInit ==
    /\ pc = "Dispatcher"
    /\ sysargs' \in ArgVectors
    /\ events' = Append(events, "Dispatcher")
    /\ LET info == get_commands_info(COMMAND_GROUPS) IN
          IF info.error
          THEN /\ Raise(OtherException("RuntimeError"))
               /\ UNCHANGED << commands, global_args, i >>
          ELSE /\ commands' = info.commands
               /\ global_args' = default_global_args
               /\ i' = 1
               /\ pc' = "scan"
               /\ exc' = exc
    /\ UNCHANGED << filtered_sysargs, command, cmd_args, charmcraft_config,
                    self_command, parsed_args, retcode, mode, log_vars >>

\* _pre_parse_args: one iteration of "for sysarg in sysargs".
ScanStep ==
    /\ pc = "scan"
    /\ i <= Len(sysargs)
    /\ LET r == scan_step(global_args, filtered_sysargs, sysargs, i) IN
          /\ global_args' = r.global_args
          /\ filtered_sysargs' = r.filtered_sysargs
          /\ i' = r.next
          /\ IF r.raised
             THEN Raise(ArgumentParsingError(ProjectDirMsg))
             ELSE pc' = pc /\ exc' = exc
    /\ UNCHANGED << sysargs, commands, command, cmd_args, charmcraft_config, self_command,
                    parsed_args, retcode, mode, events, log_vars >>

\* _pre_parse_args: the loop is over; control and use the quiet/verbose options.
ApplyVerbosity ==
    /\ pc = "scan"
    /\ i > Len(sysargs)
    /\ LET v == verbosity(global_args) IN
          IF v.raised
          THEN /\ Raise(ArgumentParsingError(MutexMsg))
               /\ UNCHANGED << mode, events >>
          ELSE /\ mode' = IF v.set_mode = None THEN mode ELSE v.set_mode[1]
               /\ events' = IF v.set_mode = None
                            THEN Append(events, "verbosity")
                            ELSE events \o <<"message_handler.set_mode", "verbosity">>
               /\ pc' = "help_option"
               /\ exc' = exc
    /\ UNCHANGED << sysargs, dispatcher_vars, retcode, log_vars >>

\* _pre_parse_args: handle requested help through the -h/--help options.
HelpOption ==
    /\ pc = "help_option"
    /\ IF flag(global_args, "help")
       THEN LET h == get_requested_help(commands, filtered_sysargs) IN
               /\ Raise(h.exc)
               /\ instances' = instances \o h.instantiated
               /\ events' = Append(events, "get_requested_help")
       ELSE /\ pc' = "resolve_command"
            /\ UNCHANGED << exc, instances, events >>
    /\ UNCHANGED << sysargs, dispatcher_vars, retcode, mode, load_calls, run_calls,
                    run_outcome, hooks >>

\* _pre_parse_args: the command, the "help" command, an unknown or a missing command.
ResolveCommand ==
    /\ pc = "resolve_command"
    /\ LET r == resolve_command(commands, filtered_sysargs) IN
          /\ instances' = instances \o r.instantiated
          /\ events' = events
                       \o (IF r.help THEN <<"get_requested_help">> ELSE <<>>)
                       \o (IF r.checked THEN <<"check_command">> ELSE <<>>)
          /\ IF r.exc.kind # "none"
             THEN /\ Raise(r.exc)
                  /\ command' = IF filtered_sysargs # <<>>
                                THEN Some(Head(filtered_sysargs)) ELSE command
                  /\ cmd_args' = IF filtered_sysargs # <<>>
                                 THEN Tail(filtered_sysargs) ELSE cmd_args
             ELSE /\ command' = Some(Head(filtered_sysargs))
                  /\ cmd_args' = Tail(filtered_sysargs)
                  /\ pc' = "load_config"
                  /\ exc' = exc
    /\ UNCHANGED << sysargs, commands, global_args, filtered_sysargs, i, charmcraft_config,
                    self_command, parsed_args, retcode, mode, load_calls, run_calls,
                    run_outcome, hooks >>

\* config.load called without the project directory.
load_argument_none(ga) == None

\* The argument _pre_parse_args gives to config.load.
load_argument(ga) == ga["project_dir"]

\* _pre_parse_args: load the system's config, and return.
LoadConfig ==
    /\ pc = "load_config"
    /\ \E provided \in BOOLEAN :
          charmcraft_config' = Some([project |-> [config_provided |-> provided]])
    /\ load_calls' = Append(load_calls, load_argument(global_args))
    /\ events' = Append(events, "config.load")
    /\ pc' = "load_command"
    /\ UNCHANGED << sysargs, commands, global_args, filtered_sysargs, i, command, cmd_args,
                    self_command, parsed_args, exc, retcode, mode, instances, run_calls,
                    run_outcome, hooks >>

\* Dispatcher._load_command: the command object and, when the command's
\* parser accepts cmd_args, its parsed arguments.
LoadCommand ==
    /\ pc = "load_command"
    /\ LET cmd_class == commands[command[1]]
           cmd == [name |-> cmd_class.name, needs_config |-> cmd_class.needs_config,
                   config |-> charmcraft_config]
       IN  /\ instances' = Append(instances, [name |-> cmd.name, config |-> cmd.config])
           /\ events' = events \o <<"instantiate", "fill_parser", "parse_args">>
           /\ \E accepted \in BOOLEAN :
                 IF accepted
                 THEN /\ self_command' = Some(cmd)
                      /\ parsed_args' = Some(cmd_args)
                      /\ pc' = "run"
                      /\ exc' = exc
                 ELSE /\ Raise(ArgumentParsingError(get_usage_message(UnrecognizedMsg, cmd.name)))
                      /\ UNCHANGED << self_command, parsed_args >>
    /\ UNCHANGED << sysargs, commands, global_args, filtered_sysargs, i, command, cmd_args,
                    charmcraft_config, retcode, mode, load_calls, run_calls, run_outcome,
                    hooks >>

\* Dispatcher.run(), called by main().
DispatcherRun ==
    /\ pc = "run"
    /\ IF needs_config_missing(self_command[1])
       THEN /\ Raise(ArgumentParsingError(NeedsConfigMsg))
            /\ events' = Append(events, "Dispatcher.run")
            /\ UNCHANGED << retcode, run_calls, run_outcome >>
       ELSE \E o \in RunOutcomes :
               /\ run_calls' = Append(run_calls, parsed_args[1])
               /\ run_outcome' = Some(o)
               /\ events' = events \o <<"Dispatcher.run", "command.run">>
               /\ IF o.how = "return"
                  THEN retcode' = o.value /\ pc' = "else" /\ exc' = exc
                  ELSE /\ retcode' = retcode
                       /\ Raise(IF o.how = "CommandError"
                                THEN CommandError(o.value[1])
                                ELSE OtherException(o.how))
    /\ UNCHANGED << sysargs, dispatcher_vars, mode, load_calls, instances, hooks >>

\* main(): the except clause that catches the exception.
Except ==
    /\ pc = "except"
    /\ LET clause == except_clause(exc) IN
          /\ hooks' = Append(hooks, clause_hook(clause, exc))
          /\ events' = Append(events, clause_hook(clause, exc).hook)
          /\ retcode' = Some(clause_retcode(clause, exc))
    /\ pc' = "done"
    /\ UNCHANGED << sysargs, dispatcher_vars, exc, mode, load_calls, instances, run_calls,
                    run_outcome >>

\* main(): the else clause of the try.
Else ==
    /\ pc = "else"
    /\ hooks' = Append(hooks, [hook |-> "ended_ok", err |-> None])
    /\ events' = Append(events, "ended_ok")
    /\ retcode' = else_retcode(retcode)
    /\ pc' = "done"
    /\ UNCHANGED << sysargs, dispatcher_vars, exc, mode, load_calls, instances, run_calls,
                    run_outcome >>

Next ==
    \/ MainInit
    \/ EnsureEnv
    \/ SetupParts
    \/ DispatcherInit
    \/ ScanStep
    \/ ApplyVerbosity
    \/ HelpOption
    \/ ResolveCommand
    \/ LoadConfig
    \/ LoadCommand
    \/ DispatcherRun
    \/ Except
    \/ Else

Spec == Init /\ [][Next]_vars

(***************************************************************************)
(* The vocabulary of the properties.  The role of every token of an        *)
(* argument vector is stated here from the command line grammar, left to   *)
(* right: a flag, an option, the value an option takes, an option with "=",*)
(* or a token of the command.                                              *)
(***************************************************************************)

QuietSpellings == { <<"-q">>, <<"--quiet">> }
VerboseSpellings == { <<"-v">>, <<"--verbose">> }
HelpSpellings == { <<"-h">>, <<"--help">> }
ProjectDirSpellings == { <<"-p">>, <<"--project-dir">> }
RegisteredNames == { <<"pack">>, <<"version">>, <<"login">> }

IsEqualForm(t) == Len(t) >= 2 /\ t[1] = "--project-dir" /\ t[2] = "="
EqualValue(t) == SubSeq(t, 3, Len(t))

RECURSIVE RolesFrom(_, _)
RolesFrom(tokens, k) ==
    IF k > Len(tokens) THEN <<>>
    ELSE IF tokens[k] \in QuietSpellings \cup VerboseSpellings \cup HelpSpellings
         THEN <<"flag">> \o RolesFrom(tokens, k + 1)
    ELSE IF tokens[k] \in ProjectDirSpellings
         THEN IF k = Len(tokens) THEN <<"option">>
              ELSE <<"option", "value">> \o RolesFrom(tokens, k + 2)
    ELSE IF IsEqualForm(tokens[k]) THEN <<"equal">> \o RolesFrom(tokens, k + 1)
    ELSE <<"other">> \o RolesFrom(tokens, k + 1)

Roles(tokens) == RolesFrom(tokens, 1)

\* The tokens of the command, in their order.
RECURSIVE OthersFrom(_, _, _)
OthersFrom(tokens, roles, k) ==
    IF k > Len(tokens) THEN <<>>
    ELSE (IF roles[k] = "other" THEN <<tokens[k]>> ELSE <<>>)
         \o OthersFrom(tokens, roles, k + 1)

Others(tokens) == OthersFrom(tokens, Roles(tokens), 1)

FlagGiven(tokens, spellings) ==
    LET r == Roles(tokens)
    IN  \E k \in DOMAIN tokens : r[k] = "flag" /\ tokens[k] \in spellings

\* The positions at which the scan stops with the project-dir error.
BadPositions(tokens) ==
    LET r == Roles(tokens)
    IN  { k \in DOMAIN tokens :
            \/ r[k] = "option" /\ k = Len(tokens)
            \/ r[k] = "equal" /\ EqualValue(tokens[k]) = <<>> }

ScanRaises(tokens) == BadPositions(tokens) # {}

Conflict(tokens) == FlagGiven(tokens, QuietSpellings) /\ FlagGiven(tokens, VerboseSpellings)

\* The value of project_dir: the last one given, or None.
LastProjectDir(tokens) ==
    LET r == Roles(tokens)
        given == { k \in DOMAIN tokens : r[k] \in {"value", "equal"} }
        last == CHOOSE k \in given : \A j \in given : j <= k
    IN  IF given = {} THEN None
        ELSE IF r[last] = "value" THEN Some(tokens[last])
        ELSE Some(EqualValue(tokens[last]))

\* The calls made so far: whether ev was called, whether every call of a
\* came before every call of b, and how often ev was called.
Has(ev) == \E k \in DOMAIN events : events[k] = ev
Before(a, b) ==
    \A k \in DOMAIN events : events[k] = b => \A j \in k..Len(events) : events[j] # a
Count(ev) == Len(SelectSeq(events, LAMBDA e : e = ev))

\* The constructor of the Dispatcher was entered and has ended.
ConstructionEnded == Has("Dispatcher") /\ pc \in {"run", "else", "except", "done"}

\* The scan loop was entered and has ended without raising.
ScanCompleted ==
    /\ Has("Dispatcher")
    /\ \/ pc = "scan" /\ i > Len(sysargs)
       \/ pc # "scan" /\ exc # ArgumentParsingError(ProjectDirMsg)

IsUsageFormatted(text) == Len(text) >= 1 /\ text[1] = "Usage: "

(***************************************************************************)
(* The pre-parser.                                                         *)
(***************************************************************************)

\* C1, as stated: whenever a quiet spelling and a verbose spelling are both
\* tokens of the argument vector, constructing the Dispatcher ends in
\* ArgumentParsingError with the mutual exclusion message.
C1_AnyPosition ==
    ( /\ ConstructionEnded
      /\ \E k \in DOMAIN sysargs : sysargs[k] \in QuietSpellings
      /\ \E k \in DOMAIN sysargs : sysargs[k] \in VerboseSpellings )
    => exc = ArgumentParsingError(MutexMsg)

\* C1, amended: when the scan raises no project-dir error and a quiet and a
\* verbose spelling are both given as flags (neither is the value taken by a
\* preceding -p/--project-dir), constructing the Dispatcher ends in
\* ArgumentParsingError with the mutual exclusion message: no mode is set, no
\* help is resolved, no configuration is loaded and no command is loaded.
C1_MutuallyExclusive ==
    (ConstructionEnded /\ ~ ScanRaises(sysargs) /\ Conflict(sysargs))
    => /\ exc = ArgumentParsingError(MutexMsg)
       /\ pc \in {"except", "done"}
       /\ ~ Has("message_handler.set_mode")
       /\ ~ Has("get_requested_help")
       /\ load_calls = <<>>
       /\ instances = <<>>
       /\ self_command = None

\* C1: the flags are given around a help flag and a command.
C1_Witness ==
    /\ pc = "done"
    /\ ~ ScanRaises(sysargs) /\ Conflict(sysargs)
    /\ \E k \in DOMAIN sysargs : sysargs[k] \in HelpSpellings \cup RegisteredNames
    /\ exc = ArgumentParsingError(MutexMsg)

\* C2: when the scan does not raise, filtered_sysargs is the argument vector
\* without its global tokens (the flags, -p/--project-dir with the value each
\* takes, the --project-dir=value tokens), the other tokens unchanged and in
\* their order; the command name is the first of them and the command's
\* arguments are the rest.
C2_FilteredTokens ==
    ScanCompleted
    => /\ filtered_sysargs = Others(sysargs)
       /\ ~ ScanRaises(sysargs)
       /\ \A k \in DOMAIN filtered_sysargs :
             /\ filtered_sysargs[k] \notin DOMAIN arg_per_option
             /\ ~ IsEqualForm(filtered_sysargs[k])
       /\ command # None =>
             /\ command = Some(Head(Others(sysargs)))
             /\ cmd_args = Tail(Others(sysargs))
       /\ parsed_args # None => parsed_args = Some(Tail(Others(sysargs)))

\* C2: global tokens after the command name, and a command argument kept.
C2_Witness ==
    /\ pc = "done"
    /\ ScanCompleted
    /\ Len(filtered_sysargs) >= 2
    /\ command # None
    /\ \E j, k \in DOMAIN sysargs :
          j < k /\ Roles(sysargs)[j] = "other" /\ Roles(sysargs)[k] # "other"

\* C9, as stated: every argument vector that holds a --project-dir= token
\* with an empty value, or whose last token is a -p/--project-dir left
\* without a value, ends in the project-dir error.
C9_AnyPosition ==
    ( /\ ConstructionEnded
      /\ \/ \E k \in DOMAIN sysargs : sysargs[k] = <<"--project-dir", "=">>
         \/ Len(sysargs) > 0 /\ Roles(sysargs)[Len(sysargs)] = "option" )
    => exc = ArgumentParsingError(ProjectDirMsg)

\* C9, amended: when a --project-dir= token with an empty value is not itself
\* the value taken by a preceding -p/--project-dir, or when -p/--project-dir
\* is the last token and no value remains for it, pre-parsing ends in
\* ArgumentParsingError with the project-dir message, raised at the first such
\* token: the tokens after it are not scanned, no mode is set, no help is
\* resolved and no configuration is loaded.
C9_ProjectDirArgument ==
    (ConstructionEnded /\ ScanRaises(sysargs))
    => LET first == CHOOSE k \in BadPositions(sysargs) :
                        \A j \in BadPositions(sysargs) : k <= j
       IN  /\ exc = ArgumentParsingError(ProjectDirMsg)
           /\ pc \in {"except", "done"}
           /\ filtered_sysargs = Others(SubSeq(sysargs, 1, first - 1))
           /\ i = first + 1
           /\ mode = "NORMAL"
           /\ ~ Has("message_handler.set_mode")
           /\ ~ Has("verbosity")
           /\ ~ Has("get_requested_help")
           /\ load_calls = <<>>
           /\ instances = <<>>
           /\ self_command = None

\* C9: a quiet flag and a command were scanned before the empty value.
C9_Witness ==
    /\ pc = "done"
    /\ exc = ArgumentParsingError(ProjectDirMsg)
    /\ global_args["quiet"] = Some(TRUE)
    /\ filtered_sysargs # <<>>
    /\ sysargs[Len(sysargs)] = <<"--project-dir", "=">>

\* The mode the flags ask for.
ExpectedMode(tokens) ==
    IF FlagGiven(tokens, QuietSpellings) THEN "QUIET"
    ELSE IF FlagGiven(tokens, VerboseSpellings) THEN "VERBOSE"
    ELSE "NORMAL"

\* C10: once the scan is over and the conflict check has passed, the mode is
\* QUIET, VERBOSE or NORMAL as the flags say, in every later state of the run;
\* set_mode is called at most once, and that before any help is resolved,
\* before the command name is checked and before the configuration is loaded.
\* [--quiet, version], with a run that returns no code, ends with retcode 0
\* in mode QUIET.
C10_VerbosityMode ==
    /\ Has("verbosity") =>
          /\ mode = ExpectedMode(sysargs)
          /\ Count("message_handler.set_mode") = (IF mode = "NORMAL" THEN 0 ELSE 1)
          /\ Count("message_handler.init") = 1
          /\ Before("message_handler.set_mode", "verbosity")
          /\ \A ev \in {"get_requested_help", "check_command", "config.load",
                        "instantiate", "command.run"} : Before("verbosity", ev)
    /\ \A ev \in {"get_requested_help", "check_command", "config.load"} :
          Has(ev) => Has("verbosity")
    /\ ~ Has("verbosity") => ~ Has("message_handler.set_mode")
    /\ ( /\ pc = "done"
         /\ sysargs = << <<"--quiet">>, <<"version">> >>
         /\ run_outcome = Some([how |-> "return", value |-> None]) )
       => retcode = Some(0) /\ mode = "QUIET"

\* C10: a verbose run that ended in help.
C10_Witness ==
    /\ pc = "done"
    /\ mode = "VERBOSE"
    /\ exc.kind = "ProvideHelpException"

(***************************************************************************)
(* The help resolver.                                                      *)
(***************************************************************************)

\* Help is asked for: by the help flag, or by "help" as the command.
HelpTriggered(tokens) ==
    /\ ~ ScanRaises(tokens)
    /\ ~ Conflict(tokens)
    /\ \/ FlagGiven(tokens, HelpSpellings)
       \/ Others(tokens) # <<>> /\ Head(Others(tokens)) = <<"help">>

\* The tokens that follow the help trigger.
HelpParameters(tokens) ==
    IF FlagGiven(tokens, HelpSpellings) THEN Others(tokens) ELSE Tail(Others(tokens))

\* C3: the help resolver decides on the tokens that follow the trigger, in
\* this order: none, general help; more than one, "Too many parameters";
\* "--all", detailed general help; a registered command, its help, from a
\* command object created with no configuration; anything else, "not found".
\* Help ends in ProvideHelpException with the text, and config.load is not
\* called.
C3_HelpResolver ==
    (Has("Dispatcher") /\ pc \in {"except", "done"} /\ HelpTriggered(sysargs))
    => LET p == HelpParameters(sysargs) IN
       /\ Count("get_requested_help") = 1
       /\ exc = IF Len(p) = 0 THEN ProvideHelpException(<<"full_help">>)
                ELSE IF Len(p) > 1
                     THEN ArgumentParsingError(get_usage_message(TooManyMsg, <<>>))
                ELSE IF p[1] = <<"--all">> THEN ProvideHelpException(<<"detailed_help">>)
                ELSE IF p[1] \in RegisteredNames
                     THEN ProvideHelpException(<<"command_help">> \o p[1])
                ELSE ArgumentParsingError(
                        get_usage_message(<<"command ", "'">> \o p[1]
                            \o <<"'", " not found to provide help for">>, <<>>))
       /\ instances = IF Len(p) = 1 /\ p[1] \in RegisteredNames
                      THEN << [name |-> p[1], config |-> None] >> ELSE <<>>
       /\ load_calls = <<>>
       /\ ~ Has("config.load")
       /\ charmcraft_config = None

\* C3: "--all" followed by a registered command, after the help trigger.
C3_Witness ==
    /\ pc = "done"
    /\ HelpTriggered(sysargs)
    /\ HelpParameters(sysargs) = << <<"--all">>, <<"pack">> >>
    /\ exc.kind = "ArgumentParsingError"

(***************************************************************************)
(* Dispatcher.run and main().                                              *)
(***************************************************************************)

\* The command ran and returned.
Returned == run_outcome # None /\ run_outcome[1].how = "return"

\* C4, as stated: the retcode is 0 when the command completes or help was
\* rendered, 1 for ArgumentParsingError, KeyboardInterrupt and any other
\* exception, and the retcode of the CommandError.
C4_ZeroOnCompletion ==
    pc = "done"
    => retcode = Some(CASE exc.kind = "none" -> 0
                        [] exc.kind = "ProvideHelpException" -> 0
                        [] exc.kind = "CommandError" -> exc.retcode
                        [] OTHER -> 1)

\* C4, amended: the retcode is the code the command's run returned when the
\* command completes (0 when it returned none) and 0 when help was rendered,
\* 1 for ArgumentParsingError, KeyboardInterrupt and any other exception, and
\* the retcode of the CommandError; every exception raised is caught.
C4_ExitCode ==
    /\ pc = "done"
       => /\ exc.kind = "none" <=> Returned
          /\ retcode = Some(CASE exc.kind = "none" ->
                                    IF run_outcome[1].value = None THEN 0
                                    ELSE run_outcome[1].value[1]
                              [] exc.kind = "ProvideHelpException" -> 0
                              [] exc.kind = "CommandError" -> exc.retcode
                              [] OTHER -> 1)
    /\ pc = "except"
       => exc.kind \in {"ArgumentParsingError", "ProvideHelpException", "CommandError",
                        "KeyboardInterrupt", "Exception", "RuntimeError"}
    /\ (run_outcome # None /\ ~ Returned /\ pc \in {"except", "done"})
       => exc.kind = run_outcome[1].how

\* C4: a command that reports failure with its own code.
C4_Witness ==
    /\ pc = "done"
    /\ run_outcome = Some([how |-> "CommandError", value |-> Some(3)])
    /\ retcode = Some(3)

\* C5: when the command needs a configuration and none was provided, run()
\* raises ArgumentParsingError with the configuration-required message and
\* the command's run is not called; otherwise the command's run is called
\* exactly once, with the parsed arguments, and run() returns its result.
C5_NeedsConfig ==
    /\ Len(run_calls) <= 1
    /\ run_calls # <<>> => Has("Dispatcher.run")
    /\ Has("Dispatcher.run")
       => IF /\ commands[command[1]].needs_config
             /\ ~ charmcraft_config[1].project.config_provided
          THEN /\ exc = ArgumentParsingError(NeedsConfigMsg)
               /\ run_calls = <<>>
               /\ run_outcome = None
               /\ ~ Has("command.run")
          ELSE /\ run_calls = << cmd_args >>
               /\ parsed_args = Some(cmd_args)
               /\ Count("command.run") = 1
               /\ run_outcome # None
               /\ (Returned /\ pc = "else") => retcode = run_outcome[1].value
               /\ Returned => exc = NoExc

\* C5: pack, which needs a configuration, where none was provided.
C5_Witness ==
    /\ pc = "done"
    /\ Has("Dispatcher.run")
    /\ command = Some(<<"pack">>)
    /\ ~ charmcraft_config[1].project.config_provided
    /\ exc.kind = "ArgumentParsingError"
    /\ run_calls = <<>>

\* A registered command is asked for, and no help.
CommandPath(tokens) ==
    /\ ~ ScanRaises(tokens)
    /\ ~ Conflict(tokens)
    /\ ~ FlagGiven(tokens, HelpSpellings)
    /\ Others(tokens) # <<>>
    /\ Head(Others(tokens)) \in RegisteredNames

\* What C6 says of the call of config.load, when there is one.
LoadCallInOrder ==
    /\ load_calls[1] = LastProjectDir(sysargs)
    /\ Has("verbosity") /\ Before("verbosity", "config.load")
    /\ Has("check_command") /\ Before("check_command", "config.load")
    /\ command # None /\ command[1] \in RegisteredNames
    /\ Before("config.load", "instantiate")
    /\ Before("config.load", "parse_args")
    /\ \A k \in DOMAIN instances : instances[k].config # None

\* C6, as stated: config.load is called exactly once per invocation (here:
\* per invocation that passed the environment check), with
\* the resolved project_dir, after the command name was checked and before
\* the command is instantiated and its arguments are parsed.
C6_ExactlyOnce ==
    (pc = "done" /\ Has("Dispatcher")) => Len(load_calls) = 1 /\ LoadCallInOrder

\* C6, amended: config.load is called at most once per invocation, and
\* exactly once on every invocation that asks for a registered command (and
\* no help) without a pre-parsing error; that call receives the resolved
\* project_dir (the last one given, or None), and comes after the mode was
\* set and the command name was checked to be registered, and before the
\* command is instantiated and its arguments are parsed.
C6_ConfigLoad ==
    /\ Len(load_calls) <= 1
    /\ Count("config.load") = Len(load_calls)
    /\ load_calls # <<>> => LoadCallInOrder /\ CommandPath(sysargs)
    /\ Has("instantiate") => load_calls # <<>>
    /\ (ConstructionEnded /\ CommandPath(sysargs)) => Len(load_calls) = 1

\* C6: the project directory is given twice, with two values.
C6_Witness ==
    /\ pc = "done"
    /\ load_calls = << Some(<<"a", "=", "b">>) >>
    /\ sysargs[1] = <<"--project-dir", "=", "d">>
    /\ Has("command.run")

\* The hook of the outcome.
ExpectedHook ==
    IF run_outcome # None THEN
        CASE run_outcome[1].how = "return" -> [hook |-> "ended_ok", err |-> None]
          [] run_outcome[1].how = "CommandError" ->
                [hook |-> "ended_cmderror",
                 err |-> Some(CommandError(run_outcome[1].value[1]))]
          [] run_outcome[1].how = "KeyboardInterrupt" ->
                [hook |-> "ended_interrupt", err |-> None]
          [] OTHER -> [hook |-> "ended_crash", err |-> Some(exc)]
    ELSE
        CASE exc.kind \in {"ArgumentParsingError", "ProvideHelpException"} ->
                [hook |-> "ended_ok", err |-> None]
          [] exc.kind = "CommandError" -> [hook |-> "ended_cmderror", err |-> Some(exc)]
          [] OTHER -> [hook |-> "ended_crash", err |-> Some(exc)]

\* C7: a run of main() calls exactly one termination hook, once, and it is
\* the hook of the outcome: ended_cmderror (with the error) for CommandError,
\* ended_interrupt for KeyboardInterrupt, ended_crash for any other exception,
\* ended_ok for success, argument error and help; a run that has not called
\* its hook yet is not over.
C7_OneHook ==
    /\ pc # "done" => hooks = <<>> /\ ENABLED Next
    /\ pc = "done" => hooks = << ExpectedHook >>

\* C7: the command raised KeyboardInterrupt.
C7_Witness ==
    /\ pc = "done"
    /\ run_outcome = Some([how |-> "KeyboardInterrupt", value |-> None])
    /\ hooks = << [hook |-> "ended_interrupt", err |-> None] >>

\* C8: every ArgumentParsingError raised carries a message that went through
\* help_builder.get_usage_message.
C8_UsageFormatted ==
    exc.kind = "ArgumentParsingError" => IsUsageFormatted(exc.text)

====
